---- MODULE Spec2Model ----
(***************************************************************************)
(* Model of Project Heaven/src/rend3_impl.rs: the rend3_framework::App     *)
(* implementation `Rendering` (setup + handle_event).                      *)
(*                                                                         *)
(* The event loop is single threaded, so one action is one whole call of   *)
(* setup or handle_event.  The calls a handler makes on its collaborators  *)
(* (egui platform, egui render routine, renderer, window, render graph,    *)
(* routine locks, control_flow closure) are recorded, in program order, in *)
(* `trace`, which always holds the calls of the most recent handler call.  *)
(*                                                                         *)
(* Colour channels are f32 in the source; they are written here in tenths  *)
(* (0.5 is 5), and only copied, never computed with.                       *)
(***************************************************************************)
EXTENDS Integers, Sequences, FiniteSets, TLC

\* ------------------------------------------------------------------ bounds
\* RedrawRequested events handled in one behaviour (egui frame numbers).
MaxFrames == 3

\* ------------------------------------------------------------ input domains
Widths == {800, 1024}
Heights == {600}
Scales == {1, 2}
\* [f32; 4] values the colour control can hand back, in tenths.
InitialColor == <<0, 5, 5, 10>>
Palette == {InitialColor, <<10, 0, 0, 10>>, <<2, 4, 6, 0>>}
NoEdit == <<>>
OtherKinds == {"ScaleFactorChanged", "CursorMoved", "LoopDestroyed"}

VARIABLES
    data,              \* Rendering.data : Option<RenderingData>
    menu_toggle,       \* Rendering.menu_toggle
    gltf_cube_toggle,  \* Rendering.gltf_cube_toggle
    renderer,          \* the rend3::Renderer's scene storage
    window,            \* the winit window: size, scale factor, redraw request
    control_flow,      \* last value handed to the control_flow closure
    exit_requested,    \* ControlFlow::Exit has been handed to the closure
    panicked,          \* data.as_mut().unwrap() hit None
    lastEvent,         \* the event of the most recent handle_event call
    repeated,          \* that event equals the one of the call before it
    trace              \* collaborator calls of the most recent call, in order

vars == <<data, menu_toggle, gltf_cube_toggle, renderer, window, control_flow,
          exit_requested, panicked, lastEvent, repeated, trace>>

\* --------------------------------------------------------------- call log
\* One collaborator call.  Every entry has the same fields; a call fills the
\* ones it has arguments for.
Call(op) ==
    [op |-> op, name |-> "", w |-> 0, h |-> 0, s |-> 0, color |-> NoEdit,
     flag |-> FALSE, handle |-> 0, frame |-> 0, passes |-> <<>>]

Ev(kind, w, h, s) == [kind |-> kind, w |-> w, h |-> h, s |-> s]
NoEvent == Ev("None", 0, 0, 0)

\* ------------------------------------------------------------ collaborators
\* rend3_routine::material::PbrMaterial { albedo: Value(c), ..default() }
PbrMaterial(c) == [albedo |-> c, rest |-> "default"]

EmptyRenderer ==
    [meshes |-> <<>>, materials |-> <<>>, objects |-> <<>>, lights |-> <<>>,
     camera |-> "unset"]

\* Option<RenderingData>::None, as Rendering::default() leaves it.
NoData ==
    [some |-> FALSE, object_handle |-> 0, material_handle |-> 0,
     directional_handle |-> 0,
     egui_routine |-> [width |-> 0, height |-> 0, scale_factor |-> 0],
     platform |-> [width |-> 0, height |-> 0, scale_factor |-> 0, frame_nr |-> 0],
     color |-> NoEdit]

\* egui_winit_platform::Platform::handle_event: the integration keeps the
\* screen size and the pixel ratio it is told about; other input is queued
\* for the next frame (not modelled, it is opaque to this program).
PlatformHandleEvent(p, ev) ==
    CASE ev.kind = "Resized" -> [p EXCEPT !.width = ev.w, !.height = ev.h]
      [] ev.kind = "ScaleFactorChanged" -> [p EXCEPT !.scale_factor = ev.s]
      [] OTHER -> p

\* Faulty variant of EguiResize: the scale factor is applied on top of the
\* routine's current one instead of replacing it.
EguiResize_Compound(er, w, h, s) ==
    [width |-> w, height |-> h, scale_factor |-> er.scale_factor * s]

\* rend3_egui::EguiRenderRoutine::resize(width, height, scale_factor)
EguiResize(er, w, h, s) == [width |-> w, height |-> h, scale_factor |-> s]

\* renderer.update_material(handle, material)
UpdateMaterial(r, handle, m) == [r EXCEPT !.materials[handle] = m]

\* ------------------------------------------------------------------- setup
SetupRenderer(r) ==
    LET mesh_handle == Len(r.meshes) + 1
        material_handle == Len(r.materials) + 1
    IN [meshes |-> Append(r.meshes, "create_mesh"),
        materials |-> Append(r.materials, PbrMaterial(InitialColor)),
        objects |-> Append(r.objects,
                           [mesh |-> mesh_handle, material |-> material_handle,
                            transform |-> "IDENTITY"]),
        lights |-> Append(r.lights, "directional"),
        camera |-> "perspective"]

\* Faulty variant of SetupData: the tracked colour starts as white, not as
\* the albedo the material was created with.
SetupData_WhiteColor(r, win) ==
    [some |-> TRUE,
     object_handle |-> Len(r.objects) + 1,
     material_handle |-> Len(r.materials) + 1,
     directional_handle |-> Len(r.lights) + 1,
     egui_routine |-> [width |-> win.width, height |-> win.height,
                       scale_factor |-> win.scale_factor],
     platform |-> [width |-> win.width, height |-> win.height,
                   scale_factor |-> win.scale_factor, frame_nr |-> 0],
     color |-> <<10, 10, 10, 10>>]

\* let color = [0.0, 0.5, 0.5, 1.0]; self.data = Some(RenderingData { .. })
SetupData(r, win) ==
    [some |-> TRUE,
     object_handle |-> Len(r.objects) + 1,
     material_handle |-> Len(r.materials) + 1,
     directional_handle |-> Len(r.lights) + 1,
     egui_routine |-> [width |-> win.width, height |-> win.height,
                       scale_factor |-> win.scale_factor],
     platform |-> [width |-> win.width, height |-> win.height,
                   scale_factor |-> win.scale_factor, frame_nr |-> 0],
     color |-> InitialColor]

SetupCalls(r) ==
    << [Call("renderer.add_mesh") EXCEPT !.handle = Len(r.meshes) + 1],
       [Call("renderer.add_material") EXCEPT !.handle = Len(r.materials) + 1,
                                             !.color = InitialColor],
       [Call("renderer.add_object") EXCEPT !.handle = Len(r.objects) + 1],
       Call("renderer.set_camera_data"),
       [Call("renderer.add_directional_light") EXCEPT !.handle = Len(r.lights) + 1] >>

\* ------------------------------------------------- handle_event: UI build
\* Faulty variant of MenuButton: a click sets the flag instead of inverting it.
MenuButton_SetOnly(menu, clicked) == menu \/ clicked

\* if ui.add(Button::new("Menu")).clicked() { menu_toggle = !menu_toggle }
MenuButton(menu, clicked) == IF clicked THEN ~menu ELSE menu

\* Faulty variant of PanelDeclared: the window is declared on every frame.
PanelDeclared_Always(menu) == TRUE

\* if self.menu_toggle == true { egui::Window::new("Change color")... }
PanelDeclared(menu) == menu = TRUE

\* Faulty variant of GltfButton: a click sets the flag instead of inverting it.
GltfButton_SetOnly(gltf, clicked) == gltf \/ clicked

\* if ui.add(Button::new("GLTF/Cube")).clicked() { gltf_cube_toggle = !... }
GltfButton(gltf, clicked) == IF clicked THEN ~gltf ELSE gltf

\* ui.color_edit_button_rgba_unmultiplied(&mut data.color).changed()
\* edit is what the user picked in the control this frame, NoEdit for nothing.
ColorEditButton(color, edit) ==
    [color |-> IF edit = NoEdit THEN color ELSE edit, changed |-> edit # NoEdit]

\* Faulty variant of ColorChanged: the re-submitted material sets one more
\* parameter than the albedo.
ColorChanged_UnlitMaterial(r, handle, color, changed) ==
    IF changed
    THEN [renderer |-> UpdateMaterial(r, handle, [albedo |-> color, rest |-> "unlit"]),
          calls |-> << [Call("renderer.update_material")
                          EXCEPT !.handle = handle, !.color = color] >>]
    ELSE [renderer |-> r, calls |-> <<>>]

\* Faulty variant of ColorChanged: the material is re-submitted on every
\* frame the control is shown, whether or not it reports a change.
ColorChanged_Unconditional(r, handle, color, changed) ==
    [renderer |-> UpdateMaterial(r, handle, PbrMaterial(color)),
     calls |-> << [Call("renderer.update_material")
                     EXCEPT !.handle = handle, !.color = color] >>]

\* if <control>.changed() { renderer.update_material(&handle, PbrMaterial{..}) }
ColorChanged(r, handle, color, changed) ==
    IF changed
    THEN [renderer |-> UpdateMaterial(r, handle, PbrMaterial(color)),
          calls |-> << [Call("renderer.update_material")
                          EXCEPT !.handle = handle, !.color = color] >>]
    ELSE [renderer |-> r, calls |-> <<>>]

\* Faulty variant of PanelUI: the control edits a copy of data.color, so the
\* material gets the new colour and the session's tracked colour does not.
PanelUI_CopyOfColor(gltf, d, r, gltfClick, edit) ==
    LET g == GltfButton(gltf, gltfClick)
        ce == ColorEditButton(d.color, edit)
        cc == ColorChanged(r, d.material_handle, ce.color, ce.changed)
    IN [gltf_cube_toggle |-> g,
        color |-> d.color,
        renderer |-> cc.renderer,
        calls |-> << Call("egui.Window(Change color)"),
                     [Call("ui.Button(GLTF/Cube)") EXCEPT !.flag = gltfClick],
                     Call("ui.label"),
                     [Call("ui.color_edit_button") EXCEPT !.flag = ce.changed,
                                                        !.color = ce.color] >>
                  \o cc.calls]

\* The closure of egui::Window::new("Change color").show(..)
PanelUI(gltf, d, r, gltfClick, edit) ==
    LET g == GltfButton(gltf, gltfClick)
        ce == ColorEditButton(d.color, edit)
        cc == ColorChanged(r, d.material_handle, ce.color, ce.changed)
    IN [gltf_cube_toggle |-> g,
        color |-> ce.color,
        renderer |-> cc.renderer,
        calls |-> << Call("egui.Window(Change color)"),
                     [Call("ui.Button(GLTF/Cube)") EXCEPT !.flag = gltfClick],
                     Call("ui.label"),
                     [Call("ui.color_edit_button") EXCEPT !.flag = ce.changed,
                                                        !.color = ce.color] >>
                  \o cc.calls]

\* The closure of egui::TopBottomPanel::top("Taskbar").show(..)
TaskbarUI(menu, gltf, d, r, menuClick, gltfClick, edit) ==
    LET m == MenuButton(menu, menuClick)
        head == << Call("egui.TopBottomPanel(Taskbar)"),
                   [Call("ui.Button(Menu)") EXCEPT !.flag = menuClick] >>
    IN IF PanelDeclared(m)
       THEN LET p == PanelUI(gltf, d, r, gltfClick, edit)
            IN [menu_toggle |-> m, gltf_cube_toggle |-> p.gltf_cube_toggle,
                color |-> p.color, renderer |-> p.renderer,
                calls |-> head \o p.calls]
       ELSE [menu_toggle |-> m, gltf_cube_toggle |-> gltf,
             color |-> d.color, renderer |-> r, calls |-> head]

\* ------------------------------------------- handle_event: render graph
\* rend3_framework::lock(&routines.pbr); rend3_framework::lock(&routines.tonemapping)
LockRoutines ==
    << [Call("lock") EXCEPT !.name = "pbr"],
       [Call("lock") EXCEPT !.name = "tonemapping"] >>

\* Faulty variant of DropRoutineGuards: the pbr guard is stored away and
\* outlives the arm; only the tonemapping guard is dropped.
DropRoutineGuards_PbrKept == << [Call("unlock") EXCEPT !.name = "tonemapping"] >>

\* Faulty variant of DropRoutineGuards: the guards are leaked, never dropped.
DropRoutineGuards_Leaked == <<>>

\* The guards pbr_routine and tonemapping_routine are locals of the
\* RedrawRequested arm (the graph borrows them): they are dropped where the
\* arm's block ends, in reverse order of declaration.
DropRoutineGuards ==
    << [Call("unlock") EXCEPT !.name = "tonemapping"],
       [Call("unlock") EXCEPT !.name = "pbr"] >>

\* rend3_routine::add_default_rendergraph(graph, ready, pbr, None, tonemapping, ..)
\* appends the PBR scene passes (no skybox routine given) and then tonemapping.
AddDefaultRendergraph(graph) == graph \o <<"pbr", "tonemapping">>

\* Faulty variant of EguiAddToGraph: the egui pass goes in front of the scene.
EguiAddToGraph_First(graph) == <<"egui">> \o graph

\* data.egui_routine.add_to_graph(&mut graph, input, surface)
EguiAddToGraph(graph) == Append(graph, "egui")

\* Faulty variant of BuildAndExecuteGraph: the graph is built and never run.
BuildAndExecuteGraph_NoExecute(paint) ==
    LET g0 == <<>>
        g1 == AddDefaultRendergraph(g0)
        g2 == EguiAddToGraph(g1)
    IN << Call("RenderGraph.new"),
          [Call("add_default_rendergraph") EXCEPT !.passes = g1],
          Call("graph.add_surface_texture"),
          [Call("egui_routine.add_to_graph") EXCEPT !.passes = g2, !.frame = paint] >>

\* RenderGraph::new() .. graph.execute(renderer, frame, cmd_bufs, &ready);
\* paint is the frame whose tessellated meshes are handed to egui as input.
BuildAndExecuteGraph(paint) ==
    LET g0 == <<>>
        g1 == AddDefaultRendergraph(g0)
        g2 == EguiAddToGraph(g1)
    IN << Call("RenderGraph.new"),
          [Call("add_default_rendergraph") EXCEPT !.passes = g1],
          Call("graph.add_surface_texture"),
          [Call("egui_routine.add_to_graph") EXCEPT !.passes = g2, !.frame = paint],
          [Call("graph.execute") EXCEPT !.passes = g2, !.name = "surface"] >>

\* ------------------------------------------------ handle_event: the arms
\* data.platform.handle_event(&event), before the match.
ForwardEvent(ev) ==
    << [Call("platform.handle_event")
           EXCEPT !.name = ev.kind, !.w = ev.w, !.h = ev.h, !.s = ev.s] >>

\* Faulty variant of RedrawArm: the renderer is readied before the UI is
\* built, so a colour change of this frame misses this frame's graph.
RedrawArm_ReadyFirst(menu, gltf, d, r, menuClick, gltfClick, edit) ==
    LET frame_nr == d.platform.frame_nr + 1
        ui == TaskbarUI(menu, gltf, d, r, menuClick, gltfClick, edit)
    IN [menu_toggle |-> ui.menu_toggle,
        gltf_cube_toggle |-> ui.gltf_cube_toggle,
        data |-> [d EXCEPT !.color = ui.color, !.platform.frame_nr = frame_nr],
        renderer |-> ui.renderer,
        calls |-> << Call("renderer.ready"),
                     Call("platform.update_time"),
                     [Call("platform.begin_frame") EXCEPT !.frame = frame_nr] >>
                  \o ui.calls
                  \o << [Call("platform.end_frame") EXCEPT !.frame = frame_nr],
                        [Call("context.tessellate")
                            EXCEPT !.frame = frame_nr,
                                   !.w = d.platform.width, !.h = d.platform.height],
                        [Call("OutputFrame.Surface") EXCEPT !.name = "surface"] >>
                  \o LockRoutines
                  \o BuildAndExecuteGraph(frame_nr)
                  \o << [Call("control_flow") EXCEPT !.name = "Poll"] >>
                  \o DropRoutineGuards]

\* Event::RedrawRequested(..) => { .. }
RedrawArm(menu, gltf, d, r, menuClick, gltfClick, edit) ==
    LET frame_nr == d.platform.frame_nr + 1
        ui == TaskbarUI(menu, gltf, d, r, menuClick, gltfClick, edit)
    IN [menu_toggle |-> ui.menu_toggle,
        gltf_cube_toggle |-> ui.gltf_cube_toggle,
        data |-> [d EXCEPT !.color = ui.color, !.platform.frame_nr = frame_nr],
        renderer |-> ui.renderer,
        calls |-> << Call("platform.update_time"),
                     [Call("platform.begin_frame") EXCEPT !.frame = frame_nr] >>
                  \o ui.calls
                  \o << [Call("platform.end_frame") EXCEPT !.frame = frame_nr],
                        [Call("context.tessellate")
                            EXCEPT !.frame = frame_nr,
                                   !.w = d.platform.width, !.h = d.platform.height],
                        [Call("OutputFrame.Surface") EXCEPT !.name = "surface"],
                        Call("renderer.ready") >>
                  \o LockRoutines
                  \o BuildAndExecuteGraph(frame_nr)
                  \o << [Call("control_flow") EXCEPT !.name = "Poll"] >>
                  \o DropRoutineGuards]

\* Faulty variant of MainEventsClearedArm: the redraw request is left out.
MainEventsClearedArm_NoRequest == <<>>

\* Event::MainEventsCleared => { window.request_redraw(); }
MainEventsClearedArm == << Call("window.request_redraw") >>

\* Faulty variant of ResizedArm: the routine's own, possibly stale, scale
\* factor is passed on instead of the window's current one.
ResizedArm_StaleScale(d, ev, win) ==
    [data |-> [d EXCEPT !.egui_routine =
                   EguiResize(d.egui_routine, ev.w, ev.h, d.egui_routine.scale_factor)],
     calls |-> << [Call("egui_routine.resize")
                     EXCEPT !.w = ev.w, !.h = ev.h,
                            !.s = d.egui_routine.scale_factor] >>]

\* WindowEvent::Resized(size) =>
\*     data.egui_routine.resize(size.width, size.height, window.scale_factor())
ResizedArm(d, ev, win) ==
    [data |-> [d EXCEPT !.egui_routine =
                   EguiResize(d.egui_routine, ev.w, ev.h, win.scale_factor)],
     calls |-> << [Call("egui_routine.resize")
                     EXCEPT !.w = ev.w, !.h = ev.h, !.s = win.scale_factor] >>]

\* WindowEvent::CloseRequested => { control_flow(ControlFlow::Exit); }
CloseRequestedArm == << [Call("control_flow") EXCEPT !.name = "Exit"] >>

\* Faulty variant of HandleEventCalls: the event reaches the UI platform only
\* after the matched arm has run.
HandleEventCalls_ForwardLast(ev, armCalls) == armCalls \o ForwardEvent(ev)

\* The whole of handle_event once data is Some: forward, then dispatch.
HandleEventCalls(ev, armCalls) == ForwardEvent(ev) \o armCalls

\* let data = self.data.as_mut().unwrap(); data.platform.handle_event(&event);
Forwarded(d, ev) == [d EXCEPT !.platform = PlatformHandleEvent(d.platform, ev)]

\* ------------------------------------------------ effects on the outside
HasCall(calls, op, name) ==
    \E i \in 1..Len(calls) : calls[i].op = op /\ calls[i].name = name

\* The closure handed in as control_flow stores its argument in the loop's
\* ControlFlow; it is FnOnce, an arm calls it at most once.
ControlFlowAfter(cf, calls) ==
    IF HasCall(calls, "control_flow", "Exit") THEN "Exit"
    ELSE IF HasCall(calls, "control_flow", "Poll") THEN "Poll"
    ELSE cf

\* What one handle_event call, with data Some, leaves behind.  win is the
\* window as the event finds it; res is what the matched arm computed.
Deliver(ev, win, res) ==
    /\ lastEvent' = ev
    /\ repeated' = (ev = lastEvent)
    /\ trace' = HandleEventCalls(ev, res.calls)
    /\ data' = res.data
    /\ menu_toggle' = res.menu_toggle
    /\ gltf_cube_toggle' = res.gltf_cube_toggle
    /\ renderer' = res.renderer
    /\ window' = [win EXCEPT !.redraw_requested =
                     win.redraw_requested \/ HasCall(res.calls, "window.request_redraw", "")]
    /\ control_flow' = ControlFlowAfter(control_flow, res.calls)
    /\ exit_requested' = (exit_requested \/ HasCall(res.calls, "control_flow", "Exit"))
    /\ UNCHANGED panicked

\* Faulty variant of Plain: the arm also hides the menu.
Plain_MenuReset(d, calls) ==
    [menu_toggle |-> FALSE, gltf_cube_toggle |-> gltf_cube_toggle,
     data |-> d, renderer |-> renderer, calls |-> calls]

\* An arm that touches neither the toggles nor the renderer.
Plain(d, calls) ==
    [menu_toggle |-> menu_toggle, gltf_cube_toggle |-> gltf_cube_toggle,
     data |-> d, renderer |-> renderer, calls |-> calls]

Ready == data.some /\ ~panicked

\* ------------------------------------------------------------------ actions
Init ==
    /\ data = NoData
    /\ menu_toggle = FALSE
    /\ gltf_cube_toggle = FALSE
    /\ renderer = EmptyRenderer
    /\ window \in [width : Widths, height : Heights, scale_factor : Scales,
                   redraw_requested : {FALSE}]
    /\ control_flow = "Unset"
    /\ exit_requested = FALSE
    /\ panicked = FALSE
    /\ lastEvent = NoEvent
    /\ repeated = FALSE
    /\ trace = <<>>

\* Rendering::setup, called once by the framework before the loop runs.
Setup ==
    /\ ~data.some /\ ~panicked
    /\ data' = SetupData(renderer, window)
    /\ renderer' = SetupRenderer(renderer)
    /\ trace' = SetupCalls(renderer)
    /\ UNCHANGED <<menu_toggle, gltf_cube_toggle, window, control_flow,
                   exit_requested, panicked, lastEvent, repeated>>

\* Faulty variant of HandleEventUninitialized: the missing session is skipped
\* over silently (an `if let Some(data)`) instead of unwrapped.
HandleEventUninitialized_Ignored ==
    /\ ~data.some /\ ~panicked
    /\ \E kind \in {"RedrawRequested", "MainEventsCleared", "Resized",
                    "CloseRequested"} \cup OtherKinds :
          lastEvent' = Ev(kind, 0, 0, 0)
    /\ trace' = <<>>
    /\ UNCHANGED <<data, menu_toggle, gltf_cube_toggle, renderer, window,
                   control_flow, exit_requested, repeated, panicked>>

\* handle_event before setup: self.data.as_mut().unwrap() panics.
HandleEventUninitialized ==
    /\ ~data.some /\ ~panicked
    /\ \E kind \in {"RedrawRequested", "MainEventsCleared", "Resized",
                    "CloseRequested"} \cup OtherKinds :
          lastEvent' = Ev(kind, 0, 0, 0)
    /\ panicked' = TRUE
    /\ trace' = <<>>
    /\ UNCHANGED <<data, menu_toggle, gltf_cube_toggle, renderer, window,
                   control_flow, exit_requested, repeated>>

\* handle_event(Event::RedrawRequested).  The loop delivers it for a pending
\* request_redraw or on the system's own demand; delivery clears the request.
HandleRedrawRequested ==
    /\ Ready
    /\ data.platform.frame_nr < MaxFrames
    /\ \E menuClick \in BOOLEAN, gltfClick \in BOOLEAN, edit \in Palette \cup {NoEdit} :
          LET ev == Ev("RedrawRequested", 0, 0, 0)
              d == Forwarded(data, ev)
          IN Deliver(ev, [window EXCEPT !.redraw_requested = FALSE],
                     RedrawArm(menu_toggle, gltf_cube_toggle, d, renderer,
                               menuClick, gltfClick, edit))

\* handle_event(Event::MainEventsCleared)
HandleMainEventsCleared ==
    /\ Ready
    /\ LET ev == Ev("MainEventsCleared", 0, 0, 0)
       IN Deliver(ev, window, Plain(Forwarded(data, ev), MainEventsClearedArm))

\* handle_event(WindowEvent::Resized(size)): the window already has that size.
HandleResized ==
    /\ Ready
    /\ \E w \in Widths, h \in Heights :
          LET ev == Ev("Resized", w, h, 0)
              win == [window EXCEPT !.width = w, !.height = h]
              res == ResizedArm(Forwarded(data, ev), ev, win)
          IN Deliver(ev, win, Plain(res.data, res.calls))

\* handle_event(WindowEvent::CloseRequested)
HandleCloseRequested ==
    /\ Ready
    /\ LET ev == Ev("CloseRequested", 0, 0, 0)
       IN Deliver(ev, window, Plain(Forwarded(data, ev), CloseRequestedArm))

\* handle_event of any event the match ignores (the `_ => {}` arms).
HandleOther ==
    /\ Ready
    /\ \E kind \in OtherKinds, s \in Scales :
          LET ev == IF kind = "ScaleFactorChanged" THEN Ev(kind, 0, 0, s)
                    ELSE Ev(kind, 0, 0, 0)
              win == IF kind = "ScaleFactorChanged"
                     THEN [window EXCEPT !.scale_factor = s] ELSE window
          IN Deliver(ev, win, Plain(Forwarded(data, ev), <<>>))

Next ==
    \/ Setup
    \/ HandleEventUninitialized
    \/ HandleRedrawRequested
    \/ HandleMainEventsCleared
    \/ HandleResized
    \/ HandleCloseRequested
    \/ HandleOther

Spec == Init /\ [][Next]_vars

\* ==================================================================== claims
\* Reading the call log of the most recent handler call.
Idx(calls, op) == {i \in 1..Len(calls) : calls[i].op = op}
Count(calls, op) == Cardinality(Idx(calls, op))

\* Calls that build a UI frame, update the material, or build/run a graph.
FrameOps ==
    {"platform.update_time", "platform.begin_frame", "egui.TopBottomPanel(Taskbar)",
     "ui.Button(Menu)", "egui.Window(Change color)", "ui.Button(GLTF/Cube)",
     "ui.label", "ui.color_edit_button", "renderer.update_material",
     "platform.end_frame", "context.tessellate", "OutputFrame.Surface",
     "renderer.ready", "lock", "unlock", "RenderGraph.new",
     "add_default_rendergraph", "graph.add_surface_texture",
     "egui_routine.add_to_graph", "graph.execute"}
NoFrameWork(calls) == \A i \in 1..Len(calls) : calls[i].op \notin FrameOps

\* The handler call that produced this state ran with data Some.
Handled(kind) == lastEvent.kind = kind /\ data.some /\ ~panicked

\* C1: once CloseRequested has been handled, a RedrawRequested delivered to
\* the handler is a no-op: no UI frame build, no material update, no render
\* graph, and the session state (toggles, session data, scene) is unchanged.
C1_RedrawAfterCloseIsNoOp ==
    [][(exit_requested /\ lastEvent'.kind = "RedrawRequested")
         => /\ NoFrameWork(trace')
            /\ data' = data
            /\ menu_toggle' = menu_toggle
            /\ gltf_cube_toggle' = gltf_cube_toggle
            /\ renderer' = renderer]_vars

\* C2: every event handled in the Ready state, of every kind, is forwarded to
\* the UI platform's handle_event exactly once, and that call is the first
\* call of the handler, before anything the matched arm does.
C2_ForwardedOnceFirst ==
    (lastEvent.kind # "None" /\ data.some /\ ~panicked)
      => /\ Len(trace) >= 1
         /\ trace[1].op = "platform.handle_event"
         /\ trace[1].name = lastEvent.kind
         /\ trace[1].w = lastEvent.w /\ trace[1].h = lastEvent.h
         /\ trace[1].s = lastEvent.s
         /\ Count(trace, "platform.handle_event") = 1

\* C2 witness: a close request whose exit request follows the forwarding.
C2_Witness ==
    /\ Handled("CloseRequested")
    /\ Len(trace) = 2
    /\ trace[1].op = "platform.handle_event"
    /\ trace[2].op = "control_flow" /\ trace[2].name = "Exit"

\* C3: in every processed frame, if the colour control reports a change there
\* is exactly one update_material call and its colour is the control's
\* post-change value; if it reports none (or is not shown) there is no call.
C3_OneUpdatePerColorChange ==
    Handled("RedrawRequested")
      => LET ce == {i \in Idx(trace, "ui.color_edit_button") : trace[i].flag}
             um == Idx(trace, "renderer.update_material")
         IN IF ce # {}
            THEN /\ Cardinality(um) = 1
                 /\ \A i \in ce, j \in um :
                       /\ trace[j].color = trace[i].color
                       /\ i < j
            ELSE um = {}

\* C3 witness: the control reports [1,0,0,1] and one update carries it.
C3_Witness ==
    /\ Handled("RedrawRequested")
    /\ \E i \in Idx(trace, "ui.color_edit_button") :
          trace[i].flag /\ trace[i].color = <<10, 0, 0, 10>>
    /\ \E j \in Idx(trace, "renderer.update_material") :
          trace[j].color = <<10, 0, 0, 10>>

\* C4: a click on "Menu" in a frame build inverts menu_toggle (no click leaves
\* it), and the floating panel is declared in that build iff menu_toggle is
\* true once the click has been applied.
C4_MenuTogglesPanelTracks ==
    [][(lastEvent'.kind = "RedrawRequested" /\ data.some /\ ~panicked')
         => /\ Count(trace', "ui.Button(Menu)") = 1
            /\ \A i \in Idx(trace', "ui.Button(Menu)") :
                  menu_toggle' = (IF trace'[i].flag THEN ~menu_toggle ELSE menu_toggle)
            /\ (Count(trace', "egui.Window(Change color)") = 1) <=> menu_toggle'
            /\ Count(trace', "egui.Window(Change color)") <= 1]_vars

\* C4 witness: the first frame, Menu clicked from menu_toggle = false: the
\* toggle is true and the panel is declared.
C4_Witness ==
    /\ Handled("RedrawRequested")
    /\ data.platform.frame_nr = 1
    /\ \E i \in Idx(trace, "ui.Button(Menu)") : trace[i].flag
    /\ menu_toggle
    /\ Count(trace, "egui.Window(Change color)") = 1

\* C5: every processed RedrawRequested executes one graph whose passes are, in
\* order, the PBR scene pass (no skybox), tonemapping, then the egui pass fed
\* with the meshes tessellated in this same frame, presented to the surface;
\* the egui pass is added after the default graph and before execute.
C5_GraphOrder ==
    Handled("RedrawRequested")
      => /\ Count(trace, "graph.execute") = 1
         /\ Count(trace, "add_default_rendergraph") = 1
         /\ Count(trace, "egui_routine.add_to_graph") = 1
         /\ Count(trace, "context.tessellate") = 1
         /\ \A x \in Idx(trace, "graph.execute"),
               a \in Idx(trace, "add_default_rendergraph"),
               e \in Idx(trace, "egui_routine.add_to_graph"),
               t \in Idx(trace, "context.tessellate") :
               /\ trace[x].passes = <<"pbr", "tonemapping", "egui">>
               /\ trace[x].name = "surface"
               /\ t < e /\ a < e /\ e < x
               /\ trace[e].frame = trace[t].frame
               /\ trace[e].frame = data.platform.frame_nr

\* C5 witness: the second frame's graph, fed with the second frame's meshes.
C5_Witness ==
    /\ Handled("RedrawRequested")
    /\ \E x \in Idx(trace, "graph.execute") :
          trace[x].passes = <<"pbr", "tonemapping", "egui">>
    /\ \E e \in Idx(trace, "egui_routine.add_to_graph") : trace[e].frame = 2

\* The routine locks held just before call i of the log.
HeldBefore(calls, i) ==
    {n \in {"pbr", "tonemapping"} :
        \E j \in 1..(i - 1) :
            /\ calls[j].op = "lock" /\ calls[j].name = n
            /\ ~\E k \in (j + 1)..(i - 1) :
                   calls[k].op = "unlock" /\ calls[k].name = n}

C7_ResizeOnlyResizes ==
    [][(lastEvent'.kind = "Resized" /\ data.some /\ ~panicked')
         => /\ Count(trace', "egui_routine.resize") = 1
            /\ \A i \in Idx(trace', "egui_routine.resize") :
                  /\ trace'[i].w = lastEvent'.w
                  /\ trace'[i].h = lastEvent'.h
                  /\ trace'[i].s = window'.scale_factor
            /\ data'.egui_routine =
                  [width |-> lastEvent'.w, height |-> lastEvent'.h,
                   scale_factor |-> window'.scale_factor]
            /\ renderer' = renderer
            /\ data'.material_handle = data.material_handle
            /\ data'.object_handle = data.object_handle
            /\ data'.directional_handle = data.directional_handle
            /\ menu_toggle' = menu_toggle
            /\ gltf_cube_toggle' = gltf_cube_toggle
            /\ data'.color = data.color
            /\ NoFrameWork(trace')]_vars

\* C7 witness: a resize to 1024x600 handled after the window's scale factor
\* has become 2 while the routine was created with 1.
C7_Witness ==
    /\ Handled("Resized")
    /\ \E i \in Idx(trace, "egui_routine.resize") :
          trace[i].w = 1024 /\ trace[i].h = 600 /\ trace[i].s = 2
    /\ data.platform.scale_factor = 2
    /\ window.scale_factor = 2

\* The session: everything a later handler call can read.
Session ==
    <<data, menu_toggle, gltf_cube_toggle, renderer, window, control_flow,
      exit_requested>>

\* C8: resize is idempotent: handling a Resized event equal to the one just
\* handled (same width and height, the scale factor unchanged in between)
\* leaves the session exactly as the first one left it.
C8_ResizeIdempotent ==
    [][(lastEvent.kind = "Resized" /\ lastEvent' = lastEvent /\ repeated'
          /\ data.some /\ ~panicked')
         => Session' = Session]_vars

\* C8 witness: a second, identical Resized(1024, 600) at scale factor 2.
C8_Witness ==
    /\ Handled("Resized")
    /\ repeated
    /\ data.egui_routine = [width |-> 1024, height |-> 600, scale_factor |-> 2]

\* C9: once CloseRequested has asked for Exit, no later event of any kind
\* undoes that, asks for Poll, or requests a further redraw.
C9_TerminatedIsTerminal ==
    [][exit_requested
         => /\ exit_requested'
            /\ ~HasCall(trace', "window.request_redraw", "")
            /\ ~HasCall(trace', "control_flow", "Poll")]_vars

\* C10: colour round trip: after a frame in which the colour control sets the
\* colour to v, the session's tracked colour is exactly v, and a handler call
\* in which the control reports no change leaves the tracked colour alone.
C10_ColorRoundTrip ==
    [][(data.some /\ ~panicked')
         => LET ce == {i \in Idx(trace', "ui.color_edit_button") : trace'[i].flag}
            IN IF ce # {}
               THEN \A i \in ce : data'.color = trace'[i].color
               ELSE data'.color = data.color]_vars

\* C10 witness: the control has set [0.2, 0.4, 0.6, 0] and the tracked colour
\* reads back as that.
C10_Witness ==
    /\ Handled("RedrawRequested")
    /\ \E i \in Idx(trace, "ui.color_edit_button") :
          trace[i].flag /\ trace[i].color = <<2, 4, 6, 0>>
    /\ data.color = <<2, 4, 6, 0>>

\* C11: Ready is reached once, by setup, before any event has been processed,
\* and is never left; an event delivered while the session data is absent
\* ends in a fatal failure (the unwrap panics): nothing is forwarded to the
\* UI, no arm runs, no state changes, and nothing runs afterwards.
C11_UninitializedEventIsFatal ==
    [][/\ ~panicked
       /\ data.some => (data'.some /\ Count(trace', "renderer.add_mesh") = 0)
       /\ (~data.some /\ data'.some)
            => (lastEvent = NoEvent /\ lastEvent' = NoEvent
                /\ Count(trace', "platform.handle_event") = 0)
       /\ (~data.some /\ ~data'.some)
            => (panicked' /\ Len(trace') = 0 /\ Session' = Session)]_vars

\* C11 witness: a RedrawRequested delivered before setup has panicked.
C11_Witness ==
    /\ panicked
    /\ ~data.some
    /\ lastEvent.kind = "RedrawRequested"
    /\ Len(trace) = 0
    /\ renderer = EmptyRenderer

\* C12: MainEventsCleared in the Ready state only requests a redraw: after
\* the forwarding its one call is window.request_redraw; no frame is built,
\* no material updated, no graph built or run, and the session data, the
\* toggles and the scene are unchanged.
C12_MainEventsClearedOnlyRequests ==
    [][(lastEvent'.kind = "MainEventsCleared" /\ data.some /\ ~panicked')
         => /\ Len(trace') = 2
            /\ trace'[2].op = "window.request_redraw"
            /\ window'.redraw_requested
            /\ NoFrameWork(trace')
            /\ data' = data
            /\ menu_toggle' = menu_toggle
            /\ gltf_cube_toggle' = gltf_cube_toggle
            /\ renderer' = renderer
            /\ control_flow' = control_flow]_vars

\* C12 witness: MainEventsCleared handled after one frame, a redraw pending.
C12_Witness ==
    /\ Handled("MainEventsCleared")
    /\ window.redraw_requested
    /\ Count(trace, "window.request_redraw") = 1
    /\ data.platform.frame_nr = 1

\* The scene as the renderer holds it, and the passes a call log executed.
ExecutedPasses(calls) == {calls[i].passes : i \in Idx(calls, "graph.execute")}

\* C13: in a frame build a click on the GLTF/Cube button inverts
\* gltf_cube_toggle and no click leaves it (so two clicks restore it); the
\* toggle has no effect on the scene: whatever its value and whether or not
\* it was clicked, the renderer's storage changes only through a reported
\* colour change and the executed graph has the same passes.
C13_AlternateSceneToggleInert ==
    [][(lastEvent'.kind = "RedrawRequested" /\ data.some /\ ~panicked')
         => LET clicks == {i \in Idx(trace', "ui.Button(GLTF/Cube)") : trace'[i].flag}
                edits == {i \in Idx(trace', "ui.color_edit_button") : trace'[i].flag}
            IN /\ gltf_cube_toggle' = (IF clicks # {} THEN ~gltf_cube_toggle
                                                     ELSE gltf_cube_toggle)
               /\ Cardinality(clicks) <= 1
               /\ edits = {} => renderer' = renderer
               /\ renderer'.meshes = renderer.meshes
               /\ renderer'.objects = renderer.objects
               /\ renderer'.lights = renderer.lights
               /\ renderer'.camera = renderer.camera
               /\ ExecutedPasses(trace') = {<<"pbr", "tonemapping", "egui">>}]_vars

\* C13 witness: a click that brings the toggle back to false (it starts
\* false, so this is at least the second click), the scene as setup left it.
C13_Witness ==
    /\ Handled("RedrawRequested")
    /\ \E i \in Idx(trace, "ui.Button(GLTF/Cube)") : trace[i].flag
    /\ gltf_cube_toggle = FALSE
    /\ renderer = SetupRenderer(EmptyRenderer)

\* The steps of one frame, in the order the RedrawRequested arm takes them.
FrameSteps ==
    << "platform.begin_frame", "egui.TopBottomPanel(Taskbar)", "platform.end_frame",
       "context.tessellate", "OutputFrame.Surface", "renderer.ready",
       "RenderGraph.new", "graph.execute", "control_flow" >>

\* Calls of the UI build, material update included.
BuildOps ==
    {"egui.TopBottomPanel(Taskbar)", "ui.Button(Menu)", "egui.Window(Change color)",
     "ui.Button(GLTF/Cube)", "ui.label", "ui.color_edit_button",
     "renderer.update_material"}

\* C14: in one processed RedrawRequested the steps come in the order begin
\* frame, UI build (with any material update), end frame and tessellate,
\* surface frame, renderer ready, graph construction, graph execute, Poll;
\* so a colour change of the build reaches the renderer before ready and
\* execute, and after execute has begun nothing but the Poll request and the
\* release of the locks happens.
C14_FrameStepOrder ==
    Handled("RedrawRequested")
      => /\ \A k \in 1..Len(FrameSteps) : Count(trace, FrameSteps[k]) = 1
         /\ \A k \in 1..(Len(FrameSteps) - 1) :
               \A i \in Idx(trace, FrameSteps[k]), j \in Idx(trace, FrameSteps[k + 1]) :
                  i < j
         /\ \A i \in 1..Len(trace) :
               trace[i].op \in BuildOps
                 => \A b \in Idx(trace, "platform.begin_frame"),
                       e \in Idx(trace, "platform.end_frame") : b < i /\ i < e
         /\ \A x \in Idx(trace, "graph.execute"), i \in 1..Len(trace) :
               i > x => trace[i].op \in {"control_flow", "unlock"}
         /\ \A c \in Idx(trace, "control_flow") : trace[c].name = "Poll"

\* C14 witness: a frame whose build updated the material, before ready.
C14_Witness ==
    /\ Handled("RedrawRequested")
    /\ \E u \in Idx(trace, "renderer.update_material"),
          r \in Idx(trace, "renderer.ready"),
          x \in Idx(trace, "graph.execute") : u < r /\ r < x

\* C15: the routine locks are never held across frames: when a handler call
\* has returned, whatever the event, no routine lock is held, and locks are
\* taken only in a RedrawRequested.
C15_NoLockBetweenEvents ==
    /\ HeldBefore(trace, Len(trace) + 1) = {}
    /\ Count(trace, "lock") > 0 => lastEvent.kind = "RedrawRequested"
    /\ Count(trace, "unlock") = Count(trace, "lock")

\* C15 witness: the second frame has taken both locks and returned them.
C15_Witness ==
    /\ Handled("RedrawRequested")
    /\ data.platform.frame_nr = 2
    /\ Count(trace, "lock") = 2
    /\ Count(trace, "unlock") = 2
    /\ HeldBefore(trace, Len(trace) + 1) = {}

\* C16: menu_toggle, gltf_cube_toggle and color change only through UI
\* interaction in a frame build: every event other than RedrawRequested
\* leaves all three unchanged, and so does a RedrawRequested in which no
\* button is clicked and the colour control reports no change.
C16_UIStateOnlyByInteraction ==
    [][(data.some /\ ~panicked')
         => LET acted == \E i \in 1..Len(trace') :
                            /\ trace'[i].flag
                            /\ trace'[i].op \in {"ui.Button(Menu)", "ui.Button(GLTF/Cube)",
                                                 "ui.color_edit_button"}
            IN (lastEvent'.kind # "RedrawRequested" \/ ~acted)
                 => /\ menu_toggle' = menu_toggle
                    /\ gltf_cube_toggle' = gltf_cube_toggle
                    /\ data'.color = data.color]_vars

\* C16 witness: a close request handled with the menu open, the toggle set
\* and an edited colour, all three still in place.
C16_Witness ==
    /\ Handled("CloseRequested")
    /\ menu_toggle
    /\ gltf_cube_toggle
    /\ data.color = <<10, 0, 0, 10>>

\* C17: the material handle taken in setup is the session's handle for good:
\* it is the one material of the renderer, every update_material is made
\* under it, the object stays bound to it, and the material differs from the
\* one setup created in its albedo at most.
C17_MaterialHandleStable ==
    data.some
      => /\ data.material_handle = Len(EmptyRenderer.materials) + 1
         /\ Len(renderer.materials) = 1
         /\ \A i \in Idx(trace, "renderer.update_material") :
               trace[i].handle = data.material_handle
         /\ Len(renderer.objects) = 1
         /\ renderer.objects[data.object_handle].material = data.material_handle
         /\ renderer.materials[data.material_handle].rest = PbrMaterial(InitialColor).rest
         /\ [renderer EXCEPT !.materials[data.material_handle].albedo = InitialColor]
               = SetupRenderer(EmptyRenderer)

\* C17 witness: after an update to [1,0,0,1] the same handle holds a material
\* with that albedo and default parameters otherwise.
C17_Witness ==
    /\ data.some
    /\ \E i \in Idx(trace, "renderer.update_material") :
          trace[i].handle = data.material_handle
    /\ renderer.materials[data.material_handle] = PbrMaterial(<<10, 0, 0, 10>>)

\* C18: every processed RedrawRequested takes exactly one surface frame,
\* executes exactly one render graph, on that frame, and asks for continuous
\* polling exactly once, after the execute.
C18_OneFrameOneExecuteOnePoll ==
    Handled("RedrawRequested")
      => /\ Count(trace, "OutputFrame.Surface") = 1
         /\ Count(trace, "graph.execute") = 1
         /\ Count(trace, "control_flow") = 1
         /\ \A f \in Idx(trace, "OutputFrame.Surface"),
               x \in Idx(trace, "graph.execute"),
               c \in Idx(trace, "control_flow") :
               /\ f < x /\ x < c
               /\ trace[x].name = trace[f].name
               /\ trace[c].name = "Poll"

\* C18 witness: the third frame: one surface frame, one execute, then Poll.
C18_Witness ==
    /\ Handled("RedrawRequested")
    /\ data.platform.frame_nr = 3
    /\ Count(trace, "OutputFrame.Surface") = 1
    /\ \E x \in Idx(trace, "graph.execute"), c \in Idx(trace, "control_flow") :
          x < c /\ trace[c].name = "Poll"

\* C19: after setup and after every handled event the albedo of the material
\* registered with the renderer equals the session's tracked colour.
C19_AlbedoEqualsTrackedColor ==
    data.some
      => renderer.materials[data.material_handle].albedo = data.color

\* C19 witness: both are [0.2, 0.4, 0.6, 0] after an edit and a later event.
C19_Witness ==
    /\ Handled("MainEventsCleared")
    /\ data.color = <<2, 4, 6, 0>>
    /\ renderer.materials[data.material_handle].albedo = <<2, 4, 6, 0>>

\* C20: the colour control and the GLTF/Cube button exist only inside the
\* floating panel: a frame built with menu_toggle false (after that frame's
\* Menu click) declares neither, makes no update_material call and leaves
\* color and gltf_cube_toggle as they were; so hiding the panel, and showing
\* it again without using them, resets neither.
C20_PanelGatesColorAndToggle ==
    [][(lastEvent'.kind = "RedrawRequested" /\ data.some /\ ~panicked')
         => /\ ~menu_toggle'
               => /\ Count(trace', "ui.color_edit_button") = 0
                  /\ Count(trace', "ui.Button(GLTF/Cube)") = 0
                  /\ Count(trace', "renderer.update_material") = 0
                  /\ data'.color = data.color
                  /\ gltf_cube_toggle' = gltf_cube_toggle
                  /\ renderer' = renderer
            /\ (\A i \in 1..Len(trace') :
                   trace'[i].op \in {"ui.color_edit_button", "ui.Button(GLTF/Cube)"}
                     => ~trace'[i].flag)
               => /\ data'.color = data.color
                  /\ gltf_cube_toggle' = gltf_cube_toggle]_vars

\* C20 witness: the frame that hides the panel (Menu clicked, menu_toggle now
\* false) keeps an edited colour and a set toggle.
C20_Witness ==
    /\ Handled("RedrawRequested")
    /\ \E i \in Idx(trace, "ui.Button(Menu)") : trace[i].flag
    /\ ~menu_toggle
    /\ Count(trace, "egui.Window(Change color)") = 0
    /\ data.color = <<10, 0, 0, 10>>
    /\ gltf_cube_toggle

====
